---- MODULE Spec2Model ----
(***************************************************************************)
(* A model of likely::FunctionMinimum (FunctionMinimum.cc), of the free    *)
(* function likely::choleskyDecomposition and of likely::FitParameter      *)
(* (FitParameter.h).                                                       *)
(*                                                                         *)
(* Numbers.  A double is modelled by an integer.  The inputs are drawn     *)
(* from the matrices whose Cholesky factorization is exact in integers     *)
(* (every pivot a perfect square, every quotient whole), so that the       *)
(* arithmetic of dpptrf is modelled without rounding.  One thing of the    *)
(* double format is kept because the code depends on it: the product of    *)
(* two doubles below about 1e-162 underflows to +0.  An error vector is    *)
(* given in units of 1 or, with tiny = TRUE, in units of 2^-600: its       *)
(* element e then denotes the double e * 2^-600, whose sign is that of e   *)
(* and whose square is +0.                                                 *)
(*                                                                         *)
(* Pointers.  A boost::shared_ptr<PackedCovariance> is Null or Ptr(v).     *)
(*                                                                         *)
(* Undefined behaviour.  updateCovariance flows off its end without a      *)
(* return statement on both paths that store a covariance; the value the   *)
(* caller then sees is any boolean.  setRandomParameters reads the packed  *)
(* factor through an iterator with no bounds check; a read past the end    *)
(* yields any value, and a null factor is a crash.                         *)
(***************************************************************************)
EXTENDS Integers, Sequences, FiniteSets, TLC

\* ---------------------------------------------------------------- bounds
\* The longest parameter vector (_where).
MaxPar == 2
\* The longest vector handed to updateCovariance.
MaxLen == 3
\* The longest vector handed to choleskyDecomposition called on its own.
MaxCholLen == 6
\* The largest error magnitude of a FitParameter.
MaxErr == 2

\* The values of the elements the inputs are drawn from.
WhereVals == {10, 20}
MinVals == {0, 1}
CovVals == {0, 1, 2}
ErrVals == {-1, 0, 2, 3}
GaussVals == {-1, 0, 1}
FillVals == {0, 7}
GarbageVals == {0, 1}
Names == {"m", "a"}
FPValues == {1, 2}

VARIABLES
    \* FunctionMinimum's members (FunctionMinimum.cc, set by the constructors)
    _minValue, _where, _covar, _cholesky,
    \* the last call on the FunctionMinimum: its arguments and what it gave back
    call,
    \* the FunctionMinimum's members when the last call started
    pre,
    \* the length _where had when the covariance now in _covar was stored
    sizedFor,
    \* FitParameter's members (FitParameter.h:38-39)
    _name, _value, _error,
    \* the last two calls on the FitParameter, each with the members before it
    hist,
    \* the last call of choleskyDecomposition on its own: argument and result
    chol

fmVars == <<_minValue, _where, _covar, _cholesky, call, pre, sizedFor>>
fpVars == <<_name, _value, _error, hist>>
vars == <<_minValue, _where, _covar, _cholesky, call, pre, sizedFor, _name, _value, _error, hist, chol>>

\* ------------------------------------------------------- vectors, pointers
SeqsUpTo(S, n) == UNION {[1..k -> S] : k \in 0..n}

Null == <<>>
Ptr(v) == <<v>>
Deref(p) == p[1]

RECURSIVE SumTo(_, _)
\* f[1] + ... + f[n]
SumTo(f, n) == IF n = 0 THEN 0 ELSE f[n] + SumTo(f, n - 1)

\* A slip: the triangle without its diagonal.
nCovarOfWithoutDiagonal(nPar) == (nPar * (nPar - 1)) \div 2

\* nCovar(nPar*(nPar+1)/2), int arithmetic
nCovarOf(nPar) == (nPar * (nPar + 1)) \div 2

\* The packed index of the diagonal element (i,i), i from 0: i*(i+3)/2.
DiagIndex(i) == (i * (i + 3)) \div 2

\* The packed index of element (i,j), i <= j, both from 0: i + j*(j+1)/2.
PackedIndex(i, j) == i + (j * (j + 1)) \div 2

\* ------------------------------------------------------------------ LAPACK
\* floor(sqrt(v)) for v >= 0
isqrt(v) == CHOOSE r \in 0..v : r * r <= v /\ (r + 1) * (r + 1) > v

RECURSIVE ddot(_, _, _, _)
\* sum over k in k0..i-1 of U(k,i)*U(k,j), on the packed array
ddot(ap, i, j, k0) ==
    IF k0 >= i THEN 0
    ELSE ap[PackedIndex(k0, i) + 1] * ap[PackedIndex(k0, j) + 1] + ddot(ap, i, j, k0 + 1)

RECURSIVE dpptrfFrom(_, _, _, _)
\* dpptrf, UPLO = 'U', from element (i,j) on: column j is the solution of
\* U(0..j-1)^T x = A(0..j-1, j), then the pivot A(j,j) - x.x, which must be > 0.
\* exact = FALSE: a quotient or a root is not an integer (outside the model).
dpptrfFrom(n, ap, i, j) ==
    IF j >= n THEN [info |-> 0, ap |-> ap, exact |-> TRUE]
    ELSE LET at == PackedIndex(i, j) + 1
             v == ap[at] - ddot(ap, i, j, 0)
         IN  IF i < j
             THEN LET d == ap[PackedIndex(i, i) + 1]
                  IN  IF v % d # 0
                      THEN [info |-> 0, ap |-> ap, exact |-> FALSE]
                      ELSE dpptrfFrom(n, [ap EXCEPT ![at] = v \div d], i + 1, j)
             ELSE IF v <= 0
                  THEN [info |-> j + 1, ap |-> [ap EXCEPT ![at] = v], exact |-> TRUE]
                  ELSE LET r == isqrt(v)
                       IN  IF r * r # v
                           THEN [info |-> 0, ap |-> ap, exact |-> FALSE]
                           ELSE dpptrfFrom(n, [ap EXCEPT ![at] = r], 0, j + 1)

\* dpptrf_(&uplo, &nPar, ap, &info) with uplo = 'U': the array after the call
\* and the status, 0 for success, j for a pivot j that is not positive.
dpptrf(n, ap) == dpptrfFrom(n, ap, 0, 0)

\* The packed matrices of n parameters on which the model's dpptrf is exact.
Representable(n, ap) == dpptrf(n, ap).exact

\* ------------------------------------------------- choleskyDecomposition
\* A slip: the root rounded to the nearest integer instead of floored.
nParOfRounded(nCov) ==
    CHOOSE n \in 0..(nCov + 1) :
        (2 * n - 1) * (2 * n - 1) <= 1 + 8 * nCov /\ (2 * n + 1) * (2 * n + 1) > 1 + 8 * nCov

\* int nPar(std::floor(0.5*std::sqrt(1+8*nCov)))
nParOf(nCov) ==
    CHOOSE n \in 0..(nCov + 1) : 4 * n * n <= 1 + 8 * nCov /\ 4 * (n + 1) * (n + 1) > 1 + 8 * nCov

\* The caller's vector after dpptrf has run: the factorization works on the
\* copy made at the start, never on the argument (a const reference).
cholInputAfter(cv, ap) == cv

\* choleskyDecomposition(covar): raised (the RuntimeError), or the pointer
\* returned; called = dpptrf_ was run, info its status, input = the caller's
\* vector after the call.
choleskyDecomposition(cv) ==
    LET nCov == Len(cv)
        nPar == nParOf(nCov)
    IN  IF nCov # (nPar * (nPar + 1)) \div 2
        THEN [raised |-> TRUE, result |-> Null, called |-> FALSE, info |-> 0,
              nPar |-> nPar, input |-> cv]
        ELSE LET f == dpptrf(nPar, cv)
             IN  [raised |-> FALSE,
                  result |-> IF f.info # 0 THEN Null ELSE Ptr(f.ap),
                  called |-> TRUE, info |-> f.info, nPar |-> nPar,
                  input |-> cholInputAfter(cv, f.ap)]

\* The inputs of choleskyDecomposition the model covers: every vector whose
\* length is not triangular, and the representable ones of triangular length.
CholInputOK(cv) ==
    ~choleskyDecomposition(cv).raised => Representable(nParOf(Len(cv)), cv)

\* ---------------------------------------------------------- FunctionMinimum
\* The members of the object, as one record.
Obj == [minValue |-> _minValue, where |-> _where, covar |-> _covar, cholesky |-> _cholesky]

\* FunctionMinimum.h: bool haveCovariance() const, true when _covar is set.
haveCovariance(obj) == obj.covar # Null

\* What the caller of a bool function that flows off its end may see.
FlowsOffEnd == {"true", "false"}

\* std::find_if(covar.begin(), covar.end(), _1 <= 0) != covar.end()
anyNonPositive(cv) == \E i \in DOMAIN cv : cv[i] <= 0

\* double error(covar[i]); error*error, in double arithmetic
errorSquared(e, tiny) == IF tiny THEN 0 ELSE e * e

\* _covar.reset(new PackedCovariance(nCovar,0)); then for i < nPar
\* (*_covar)[i*(i+3)/2] = error*error
diagonalCovariance(cv, tiny, nPar, nCovar) ==
    [k \in 1..nCovar |->
        IF \E i \in 0..(nPar - 1) : DiagIndex(i) + 1 = k
        THEN errorSquared(cv[(CHOOSE i \in 0..(nPar - 1) : DiagIndex(i) + 1 = k) + 1], tiny)
        ELSE 0]

\* A slip: the elements are checked before the length is.
errorsOnlyBranchValuesFirst(obj, cv, tiny, nPar, nCovar) ==
    IF anyNonPositive(cv)
    THEN {[ret |-> "false", path |-> "rejected", covar |-> obj.covar, cholesky |-> obj.cholesky]}
    ELSE IF Len(cv) # nPar
    THEN {[ret |-> "throw", path |-> "raised", covar |-> obj.covar, cholesky |-> obj.cholesky]}
    ELSE LET diag == diagonalCovariance(cv, tiny, nPar, nCovar)
             cd == choleskyDecomposition(diag)
         IN  {[ret |-> r, path |-> "stored", covar |-> Ptr(diag),
               cholesky |-> cd.result] : r \in FlowsOffEnd}

\* The branch if(errorsOnly) of updateCovariance: the outcomes [ret, path,
\* covar, cholesky], ret what the caller sees, path the way taken.
errorsOnlyBranch(obj, cv, tiny, nPar, nCovar) ==
    IF Len(cv) # nPar
    THEN {[ret |-> "throw", path |-> "raised", covar |-> obj.covar, cholesky |-> obj.cholesky]}
    ELSE IF anyNonPositive(cv)
    THEN {[ret |-> "false", path |-> "rejected", covar |-> obj.covar, cholesky |-> obj.cholesky]}
    ELSE LET diag == diagonalCovariance(cv, tiny, nPar, nCovar)
             cd == choleskyDecomposition(diag)
         IN  IF cd.raised
             THEN {[ret |-> "throw", path |-> "raised", covar |-> Ptr(diag),
                    cholesky |-> obj.cholesky]}
             ELSE {[ret |-> r, path |-> "stored", covar |-> Ptr(diag),
                    cholesky |-> cd.result] : r \in FlowsOffEnd}

\* A slip: the factor is assigned to _cholesky before it is tested.
fullMatrixBranchStoresFirst(obj, cv, nPar, nCovar) ==
    IF Len(cv) # nCovar
    THEN {[ret |-> "throw", path |-> "raised", covar |-> obj.covar, cholesky |-> obj.cholesky]}
    ELSE LET cd == choleskyDecomposition(cv)
         IN  IF cd.result = Null
             THEN {[ret |-> "false", path |-> "rejected", covar |-> obj.covar,
                    cholesky |-> Null]}
             ELSE {[ret |-> r, path |-> "stored", covar |-> Ptr(cv),
                    cholesky |-> cd.result] : r \in FlowsOffEnd}

\* The else branch of updateCovariance (a full packed matrix).
fullMatrixBranch(obj, cv, nPar, nCovar) ==
    IF Len(cv) # nCovar
    THEN {[ret |-> "throw", path |-> "raised", covar |-> obj.covar, cholesky |-> obj.cholesky]}
    ELSE LET cd == choleskyDecomposition(cv)
         IN  IF cd.raised
             THEN {[ret |-> "throw", path |-> "raised", covar |-> obj.covar,
                    cholesky |-> obj.cholesky]}
             ELSE IF cd.result = Null
             THEN {[ret |-> "false", path |-> "rejected", covar |-> obj.covar,
                    cholesky |-> obj.cholesky]}
             ELSE {[ret |-> r, path |-> "stored", covar |-> Ptr(cv),
                    cholesky |-> cd.result] : r \in FlowsOffEnd}

\* bool FunctionMinimum::updateCovariance(covar, errorsOnly)
updateCovariance(obj, cv, tiny, errorsOnly) ==
    LET nPar == Len(obj.where)
        nCovar == nCovarOf(nPar)
    IN  IF errorsOnly
        THEN errorsOnlyBranch(obj, cv, tiny, nPar, nCovar)
        ELSE fullMatrixBranch(obj, cv, nPar, nCovar)

\* void FunctionMinimum::updateParameters(params, fval): the members after it
updateParameters(obj, params, fval) ==
    [obj EXCEPT !.minValue = fval, !.where = params]

\* The vectors handed to updateCovariance with the given errorsOnly.  An
\* error vector is in units of 1 or, when all
\* its elements are positive, of 2^-600 (the unit of a vector that fails the
\* sign check changes nothing).  A full matrix is in units of 1 and, when
\* its length is triangular, one dpptrf is exact on.
CovarianceInputs(errorsOnly) ==
    IF errorsOnly
    THEN {in \in [cv : SeqsUpTo(ErrVals, MaxLen), tiny : BOOLEAN] :
            in.tiny => ~anyNonPositive(in.cv)}
    ELSE {[cv |-> cv, tiny |-> FALSE] :
            cv \in {c \in SeqsUpTo(CovVals, MaxLen) : CholInputOK(c)}}

\* A call record with nothing in it.
NoCall ==
    [op |-> "none", cv |-> <<>>, tiny |-> FALSE, errorsOnly |-> FALSE, params |-> <<>>,
     fval |-> 0, normals |-> <<>>, fill |-> 0, ret |-> "none", path |-> "none",
     dst |-> <<>>, weight |-> [num |-> 0, den |-> 1], consumed |-> 0]

\* nlWeight/2, a double: the quotient kept as a fraction
half(x) == [num |-> x, den |-> 2]

RECURSIVE multiplyFromStrict(_, _, _, _, _, _, _)
\* A slip: the inner loop stops at i < j and leaves out the diagonal.
multiplyFromStrict(params, U, gauss, nPar, j, i, next) ==
    IF j >= nPar THEN params
    ELSE IF i >= j THEN multiplyFromStrict(params, U, gauss, nPar, j + 1, 0, next)
    ELSE multiplyFromStrict([params EXCEPT ![j + 1] = @ + U[next] * gauss[i + 1]],
                            U, gauss, nPar, j, i + 1, next + 1)

RECURSIVE multiplyFrom(_, _, _, _, _, _, _)
\* for(j < nPar) for(i <= j) params[j] += (*next++)*gauss[i], from step (j,i)
\* on, next the position of the iterator in the packed factor (from 1).
multiplyFrom(params, U, gauss, nPar, j, i, next) ==
    IF j >= nPar THEN params
    ELSE IF i > j THEN multiplyFrom(params, U, gauss, nPar, j + 1, 0, next)
    ELSE multiplyFrom([params EXCEPT ![j + 1] = @ + U[next] * gauss[i + 1]],
                      U, gauss, nPar, j, i + 1, next + 1)

\* double FunctionMinimum::setRandomParameters(params) const, the Random
\* source yielding stream[1], stream[2], ... and params holding dst0 at the
\* call: the outcomes [ret, path, dst, weight, consumed], consumed the number
\* of calls of getNormal.
setRandomParameters(obj, stream, dst0) ==
    IF ~haveCovariance(obj)
    THEN {[ret |-> "throw", path |-> "raised", dst |-> dst0,
           weight |-> [num |-> 0, den |-> 1], consumed |-> 0]}
    ELSE LET nPar == Len(obj.where)
             gauss == SubSeq(stream, 1, nPar)
             nlWeight == SumTo([i \in 1..nPar |-> gauss[i] * gauss[i]], nPar)
             params == [i \in 1..nPar |-> obj.where[i]]
         IN  IF obj.cholesky = Null
             THEN {[ret |-> "undefined", path |-> "crash", dst |-> params,
                    weight |-> [num |-> 0, den |-> 1], consumed |-> nPar]}
             ELSE LET U == Deref(obj.cholesky)
                      \* the loops read nPar*(nPar+1)/2 elements through next
                      short == (nPar * (nPar + 1)) \div 2 - Len(U)
                  IN  IF short > 0
                      THEN {[ret |-> "undefined", path |-> "overread",
                             dst |-> multiplyFrom(params, U \o pad, gauss, nPar, 0, 0, 1),
                             weight |-> half(nlWeight), consumed |-> nPar] :
                               pad \in [1..short -> GarbageVals]}
                      ELSE {[ret |-> "value", path |-> "sampled",
                             dst |-> multiplyFrom(params, U, gauss, nPar, 0, 0, 1),
                             weight |-> half(nlWeight), consumed |-> nPar]}

\* ------------------------------------------- FunctionMinimum: the machine
Wheres == SeqsUpTo(WhereVals, MaxPar)

\* The object a constructor has initialised before its body runs.
Fresh(mv, w) == [minValue |-> mv, where |-> w, covar |-> Null, cholesky |-> Null]

\* FunctionMinimum(minValue, where)
Construct2(mv, w) ==
    /\ _minValue = mv /\ _where = w /\ _covar = Null /\ _cholesky = Null
    /\ call = [NoCall EXCEPT !.op = "FunctionMinimum", !.ret = "constructed"]
    /\ pre = Fresh(mv, w)
    /\ sizedFor = 0

\* FunctionMinimum(minValue, where, covar, errorsOnly): there is an object
\* only when updateCovariance gave the constructor true; on false, or when
\* updateCovariance throws, the constructor throws.
Construct4(mv, w, in, errorsOnly) ==
    \E o \in updateCovariance(Fresh(mv, w), in.cv, in.tiny, errorsOnly) :
        /\ o.ret = "true"
        /\ _minValue = mv /\ _where = w /\ _covar = o.covar /\ _cholesky = o.cholesky
        /\ call = [NoCall EXCEPT !.op = "FunctionMinimum", !.cv = in.cv, !.tiny = in.tiny,
                                 !.errorsOnly = errorsOnly, !.ret = "constructed",
                                 !.path = o.path]
        /\ pre = Fresh(mv, w)
        /\ sizedFor = Len(w)

FMInit ==
    \E mv \in MinVals, w \in Wheres :
        \/ Construct2(mv, w)
        \/ \E errorsOnly \in BOOLEAN :
             \E in \in CovarianceInputs(errorsOnly) : Construct4(mv, w, in, errorsOnly)

UpdateParameters(params, fval) ==
    LET new == updateParameters(Obj, params, fval)
    IN  /\ _minValue' = new.minValue
        /\ _where' = new.where
        /\ _covar' = new.covar
        /\ _cholesky' = new.cholesky
        /\ call' = [NoCall EXCEPT !.op = "updateParameters", !.params = params,
                                  !.fval = fval, !.ret = "void"]
        /\ pre' = Obj
        /\ UNCHANGED sizedFor
        /\ UNCHANGED <<fpVars, chol>>

UpdateCovariance(in, errorsOnly) ==
    \E o \in updateCovariance(Obj, in.cv, in.tiny, errorsOnly) :
        /\ _covar' = o.covar
        /\ _cholesky' = o.cholesky
        /\ UNCHANGED <<_minValue, _where>>
        /\ call' = [NoCall EXCEPT !.op = "updateCovariance", !.cv = in.cv, !.tiny = in.tiny,
                                  !.errorsOnly = errorsOnly, !.ret = o.ret, !.path = o.path]
        /\ pre' = Obj
        /\ sizedFor' = IF o.covar # _covar \/ o.path = "stored" THEN Len(_where) ELSE sizedFor
        /\ UNCHANGED <<fpVars, chol>>

\* The caller passes a vector of the length of _where, filled with fill.
SetRandomParameters(stream, fill) ==
    \E o \in setRandomParameters(Obj, stream, [i \in 1..Len(_where) |-> fill]) :
        /\ UNCHANGED <<_minValue, _where, _covar, _cholesky>>
        /\ call' = [NoCall EXCEPT !.op = "setRandomParameters", !.normals = stream,
                                  !.fill = fill, !.ret = o.ret, !.path = o.path,
                                  !.dst = o.dst, !.weight = o.weight,
                                  !.consumed = o.consumed]
        /\ pre' = Obj
        /\ UNCHANGED sizedFor
        /\ UNCHANGED <<fpVars, chol>>

Next ==
    \/ \E params \in Wheres, fval \in MinVals : UpdateParameters(params, fval)
    \/ \E errorsOnly \in BOOLEAN :
         \E in \in CovarianceInputs(errorsOnly) : UpdateCovariance(in, errorsOnly)
    \/ \E stream \in [1..MaxPar -> GaussVals], fill \in FillVals :
         SetRandomParameters(stream, fill)

\* ------------------------------------------------------------ FitParameter
\* A slip: fixing by the zero error that marks a fixed parameter.
fixByZero(e) == IF e > 0 THEN 0 ELSE e

\* A slip: the sign is flipped whatever the state.
fixAlwaysNegates(e) == 0 - e

\* inline void FitParameter::fix() { if(_error > 0) _error = -_error; }
fix(e) == IF e > 0 THEN -e ELSE e

\* inline void FitParameter::release() { if(_error < 0) _error = -_error; }
release(e) == IF e < 0 THEN -e ELSE e

\* inline bool FitParameter::isFloating() const { return (_error > 0); }
isFloating(e) == e > 0

\* inline double FitParameter::getError() const { return _error; }
getError(e) == e

\* inline void FitParameter::setValue(double value) { _value = value; }
setValue(v, newValue) == newValue

\* void setError(double error): throws a RuntimeError if error < 0
setErrorThrows(newError) == newError < 0

\* The last two calls, the newest last.
Push(h, r) == IF Len(h) < 2 THEN Append(h, r) ELSE <<h[2], r>>

Before(op, threw) ==
    [op |-> op, name |-> _name, value |-> _value, error |-> _error, threw |-> threw]

\* FitParameter(name, value, error): throws if error < 0, so that an object
\* starts with an error >= 0.
FPInit ==
    /\ _name \in Names
    /\ _value \in FPValues
    /\ _error \in {e \in (0 - MaxErr)..MaxErr : ~setErrorThrows(e)}
    /\ hist = <<>>

Fix ==
    /\ _error' = fix(_error)
    /\ UNCHANGED <<_name, _value>>
    /\ hist' = Push(hist, Before("fix", FALSE))
    /\ UNCHANGED <<fmVars, chol>>

Release ==
    /\ _error' = release(_error)
    /\ UNCHANGED <<_name, _value>>
    /\ hist' = Push(hist, Before("release", FALSE))
    /\ UNCHANGED <<fmVars, chol>>

SetValue(v) ==
    /\ _value' = setValue(_value, v)
    /\ UNCHANGED <<_name, _error>>
    /\ hist' = Push(hist, Before("setValue", FALSE))
    /\ UNCHANGED <<fmVars, chol>>

SetError(e) ==
    /\ _error' = IF setErrorThrows(e) THEN _error ELSE e
    /\ UNCHANGED <<_name, _value>>
    /\ hist' = Push(hist, Before("setError", setErrorThrows(e)))
    /\ UNCHANGED <<fmVars, chol>>

NextFP ==
    \/ Fix
    \/ Release
    \/ \E v \in FPValues : SetValue(v)
    \/ \E e \in (0 - MaxErr)..MaxErr : SetError(e)

\* ------------------------------------- choleskyDecomposition on its own
NoChol == [op |-> "none", cv |-> <<>>, r |-> choleskyDecomposition(<<>>)]

CholeskyDecomposition(cv) ==
    /\ chol' = [op |-> "choleskyDecomposition", cv |-> cv, r |-> choleskyDecomposition(cv)]
    /\ UNCHANGED <<fmVars, fpVars>>

NextChol ==
    \E cv \in {c \in SeqsUpTo(CovVals, MaxCholLen) : CholInputOK(c)} : CholeskyDecomposition(cv)

\* --------------------------------------------------------- specifications
FMIdle ==
    /\ _minValue = 0 /\ _where = <<>> /\ _covar = Null /\ _cholesky = Null
    /\ call = NoCall /\ pre = Fresh(0, <<>>) /\ sizedFor = 0

FPIdle == _name = "m" /\ _value = 1 /\ _error = 0 /\ hist = <<>>

CholIdle == chol = NoChol

\* The FunctionMinimum: any constructor, then any calls.
Init == FMInit /\ FPIdle /\ CholIdle

Spec == Init /\ [][Next]_vars

\* The FitParameter: the constructor, then any calls.
InitFP == FPInit /\ FMIdle /\ CholIdle

SpecFP == InitFP /\ [][NextFP]_vars

\* choleskyDecomposition called on any vector.
InitChol == CholIdle /\ FMIdle /\ FPIdle

SpecChol == InitChol /\ [][NextChol]_vars

\* ------------------------------------------------------------- the claims
\* n(n+1)/2, the length of a packed symmetric matrix of n parameters
Tri(n) == (n * (n + 1)) \div 2

\* The packed symmetric matrix cv of n <= 3 parameters is positive definite:
\* its leading principal minors are positive.
IsPosDef(cv, n) ==
    /\ n >= 1 => cv[1] > 0
    /\ n >= 2 => cv[1] * cv[3] - cv[2] * cv[2] > 0
    /\ n >= 3 => cv[1] * (cv[3] * cv[6] - cv[5] * cv[5])
                 - cv[2] * (cv[2] * cv[6] - cv[5] * cv[4])
                 + cv[4] * (cv[2] * cv[5] - cv[3] * cv[4]) > 0

\* The last call was updateCovariance(call.cv, call.errorsOnly) on an object
\* of n parameters.
CalledUpdateCovariance == call.op = "updateCovariance"
nBefore == Len(pre.where)

\* C1: for every FunctionMinimum of n parameters and every packed symmetric
\* positive-definite covar of length n(n+1)/2, updateCovariance(covar, false)
\* returns true, and afterwards haveCovariance() is true, the stored
\* covariance is a copy of covar and the stored factor is the one dpptrf
\* returned for covar.
C1_AcceptsPosDef ==
    (/\ CalledUpdateCovariance
     /\ ~call.errorsOnly
     /\ Len(call.cv) = Tri(nBefore)
     /\ IsPosDef(call.cv, nBefore))
    => /\ call.ret = "true"
       /\ haveCovariance(Obj)
       /\ _covar = Ptr(call.cv)
       /\ _cholesky = Ptr(dpptrf(nBefore, call.cv).ap)

\* The two cases in which updateCovariance is to return false: a full matrix
\* of the right length that dpptrf rejects, an error vector of the right
\* length with an element <= 0.
RejectionCase ==
    IF call.errorsOnly
    THEN Len(call.cv) = nBefore /\ \E i \in 1..Len(call.cv) : call.cv[i] <= 0
    ELSE Len(call.cv) = Tri(nBefore) /\ dpptrf(nBefore, call.cv).info # 0

\* C2: in the two rejection cases, and through its return false statements
\* in no other, updateCovariance returns false and leaves haveCovariance(),
\* the stored covariance, the stored factor, where and minValue as they were
\* before the call, also when a covariance accepted earlier is present.
C2_RejectionChangesNothing ==
    CalledUpdateCovariance
    => /\ RejectionCase <=> call.path = "rejected"
       /\ RejectionCase => call.ret = "false" /\ Obj = pre
                           /\ haveCovariance(Obj) = haveCovariance(pre)

C2_Witness ==
    /\ CalledUpdateCovariance /\ RejectionCase /\ ~call.errorsOnly
    /\ call.ret = "false"
    /\ haveCovariance(pre) /\ _covar = pre.covar /\ _cholesky = pre.cholesky

\* The input length disagrees with the parameter count.
LengthMismatch ==
    IF call.errorsOnly THEN Len(call.cv) # nBefore ELSE Len(call.cv) # Tri(nBefore)

\* C3: updateCovariance throws exactly when the input length disagrees with
\* the parameter count (n with errorsOnly, n(n+1)/2 without); the length is
\* checked before any value, so a wrong-length error vector with an element
\* <= 0 throws instead of returning false; and a throw leaves covariance,
\* factor, where and minValue unchanged.
C3_ThrowsExactlyOnLengthMismatch ==
    CalledUpdateCovariance
    => /\ call.ret = "throw" <=> LengthMismatch
       /\ call.ret = "throw" => Obj = pre

C3_Witness ==
    /\ CalledUpdateCovariance /\ call.errorsOnly /\ LengthMismatch
    /\ \E i \in 1..Len(call.cv) : call.cv[i] <= 0
    /\ call.ret = "throw" /\ haveCovariance(pre) /\ Obj = pre

\* The double s is the square of the element e of an error vector: in units
\* of 2^-600 the square is e*e*2^-1200, positive and below every positive
\* double, so that no stored double equals it.
IsSquareOf(s, e, tiny) == IF tiny THEN FALSE ELSE s = e * e

\* C4: for every error vector e of length n with all e[i] > 0,
\* updateCovariance(e, true) returns true and stores a packed covariance of
\* length n(n+1)/2 whose entry at i(i+3)/2 is e[i]^2 for i in 0..n-1 and
\* whose other entries are 0.
C4_ErrorsGiveDiagonal ==
    (/\ CalledUpdateCovariance
     /\ call.errorsOnly
     /\ Len(call.cv) = nBefore
     /\ \A i \in 1..Len(call.cv) : call.cv[i] > 0)
    => /\ call.ret = "true"
       /\ haveCovariance(Obj)
       /\ Len(Deref(_covar)) = Tri(nBefore)
       /\ \A i \in 0..(nBefore - 1) :
            IsSquareOf(Deref(_covar)[(i * (i + 3)) \div 2 + 1], call.cv[i + 1], call.tiny)
       /\ \A k \in 1..Tri(nBefore) :
            (\A i \in 0..(nBefore - 1) : k # (i * (i + 3)) \div 2 + 1) => Deref(_covar)[k] = 0

\* The last call was setRandomParameters on an object with a covariance and
\* the packed upper factor of its n parameters.
SampledWithFactor ==
    /\ call.op = "setRandomParameters"
    /\ haveCovariance(pre)
    /\ pre.cholesky # Null
    /\ Len(Deref(pre.cholesky)) = Tri(nBefore)

\* C5: with a covariance present, n = |where|, the packed upper factor U and
\* the Random source yielding g[0], g[1], ..., setRandomParameters(dst)
\* consumes exactly n normals, sets dst[j] = where[j] + sum over i in 0..j of
\* U[i + j(j+1)/2] * g[i] for j in 0..n-1 and returns (sum of g[i]^2)/2; the
\* normals [1,0], covariance [4,0,9] and where = [10,20] give dst = [12,20]
\* and 0.5; where, minValue, covariance and factor are unchanged.
C5_SampleIsWherePlusFactorTimesNormals ==
    SampledWithFactor
    => LET n == nBefore
           U == Deref(pre.cholesky)
           g == call.normals
       IN  /\ call.ret = "value"
           /\ call.consumed = n
           /\ Len(call.dst) = n
           /\ \A j \in 0..(n - 1) :
                call.dst[j + 1] = pre.where[j + 1]
                    + SumTo([i \in 1..(j + 1) |-> U[(i - 1) + (j * (j + 1)) \div 2 + 1] * g[i]], j + 1)
           /\ call.weight.num * 2 = SumTo([i \in 1..n |-> g[i] * g[i]], n) * call.weight.den
           /\ Obj = pre
           /\ (pre.where = <<10, 20>> /\ pre.covar = Ptr(<<4, 0, 9>>) /\ g = <<1, 0>>)
              => call.dst = <<12, 20>> /\ call.weight.num * 2 = call.weight.den

C5_Witness ==
    /\ SampledWithFactor
    /\ pre.where = <<10, 20>> /\ pre.covar = Ptr(<<4, 0, 9>>) /\ call.normals = <<1, 0>>
    /\ call.dst = <<12, 20>> /\ call.weight = [num |-> 1, den |-> 2]

\* C7: in every state reached by a constructor and any calls of
\* updateParameters and updateCovariance (accepted, rejected or throwing),
\* the stored covariance and the stored factor are both absent or both
\* present.
C7_CovarianceAndFactorTogether == (_covar = Null) <=> (_cholesky = Null)

\* C8: whenever a covariance is present its length is n(n+1)/2 with
\* n = |where|, the current point's length, so that getErrors() reads only
\* indices i(i+3)/2 inside the stored covariance, also after updateParameters
\* with a point of another length.
C8_CovarianceFitsWhere ==
    haveCovariance(Obj)
    => /\ Len(Deref(_covar)) = Tri(Len(_where))
       /\ \A i \in 0..(Len(_where) - 1) : DiagIndex(i) + 1 <= Len(Deref(_covar))

\* C8 as amended: whenever a covariance is present its length is m(m+1)/2, m
\* the length where had when that covariance was stored; right after the call
\* that stored it m = |where|, and getErrors() then reads only indices
\* i(i+3)/2 inside it; updateParameters leaves covariance and factor as they
\* are, whatever the length of the new point.
C8_CovarianceFitsWhereItWasStoredFor ==
    /\ haveCovariance(Obj) => Len(Deref(_covar)) = Tri(sizedFor)
    /\ (haveCovariance(Obj) /\ call.path = "stored")
       => /\ sizedFor = Len(_where)
          /\ \A i \in 0..(Len(_where) - 1) : DiagIndex(i) + 1 <= Len(Deref(_covar))
    /\ call.op = "updateParameters" => _covar = pre.covar /\ _cholesky = pre.cholesky

C8_Witness ==
    /\ call.op = "updateParameters"
    /\ haveCovariance(Obj)
    /\ Len(pre.where) >= 1
    /\ Len(_where) > Len(pre.where)
    /\ Len(Deref(_covar)) = Tri(Len(pre.where))
    /\ DiagIndex(Len(_where) - 1) + 1 > Len(Deref(_covar))

\* The last call on the FitParameter, and the one before it.
Last == hist[Len(hist)]
Prev == hist[Len(hist) - 1]
AbsOf(e) == IF e < 0 THEN 0 - e ELSE e

C9_FixAndReleaseIdempotent ==
    /\ (Len(hist) = 2 /\ Last.op = Prev.op /\ Last.op \in {"fix", "release"})
       => _error = Last.error
    /\ (Len(hist) >= 1 /\ Last.op = "fix" /\ Last.error <= 0) => _error = Last.error
    /\ (Len(hist) >= 1 /\ Last.op = "release" /\ Last.error >= 0) => _error = Last.error
    /\ (Len(hist) >= 1 /\ Last.op \in {"fix", "release"})
       => /\ AbsOf(_error) = AbsOf(Last.error)
          /\ Last.error = 0 => _error = 0
          /\ _value = Last.value /\ _name = Last.name
    /\ isFloating(_error) <=> _error > 0

C9_Witness ==
    /\ Len(hist) = 2 /\ Prev.op = "fix" /\ Last.op = "fix"
    /\ Prev.error > 0 /\ Last.error < 0 /\ _error = Last.error

\* C10: for an input of length L, choleskyDecomposition computes
\* nPar = floor(0.5*sqrt(1+8L)); when L = n(n+1)/2 it finds nPar = n and runs
\* the factorization, when L is not triangular it throws without running it;
\* a non-zero status of the factorization gives the null result, not a
\* throw; and the caller's vector is never modified.
C10_CholeskyDecomposition ==
    chol.op = "choleskyDecomposition"
    => LET L == Len(chol.cv)
           r == chol.r
       IN  /\ 4 * r.nPar * r.nPar <= 1 + 8 * L
           /\ 4 * (r.nPar + 1) * (r.nPar + 1) > 1 + 8 * L
           /\ \A n \in 0..L : L = Tri(n) => r.nPar = n /\ r.called /\ ~r.raised
           /\ (\A n \in 0..L : L # Tri(n)) => r.raised /\ ~r.called
           /\ (r.called /\ r.info # 0) => ~r.raised /\ r.result = Null
           /\ (r.called /\ r.info = 0) => ~r.raised /\ r.result # Null
           /\ r.input = chol.cv

C10_Witness ==
    /\ chol.op = "choleskyDecomposition"
    /\ chol.cv = <<1, 2, 1>>
    /\ chol.r.nPar = 2 /\ chol.r.called /\ chol.r.info = 2 /\ chol.r.result = Null
    /\ ~chol.r.raised

====
